---- MODULE Spec2Model ----
(***************************************************************************)
(* A model of ci/run_ai_checks.py: the AI code reviewer that collects a    *)
(* git diff and two documents, asks an Ollama model for a verdict and      *)
(* turns the answer into a JSON block on stdout and an exit code.          *)
(*                                                                         *)
(* Text is a sequence of one-element strings.  " " and "\n" are the        *)
(* whitespace characters; every other element stands for a run of          *)
(* non-whitespace text ("d" a diff line, "RULES_BEGIN" a fixed line of a   *)
(* template, "FENCE" a code fence, "{" and "}" the braces, "os:pass" the   *)
(* JSON member "overall_status": "pass", and so on).                       *)
(***************************************************************************)
EXTENDS Naturals, Sequences, FiniteSets, TLC

VARIABLES
    pc,             \* where main() is: "start" .. "done" / "crashed"
    STRICT_MODE,    \* line 45, read once from the environment
    ai_checks_doc,  \* main's local: the rules document
    product_spec,   \* main's local: the project context document
    gitLog,         \* every run_cmd call of this run that returned, in order
    diff,           \* main's local: what get_git_diff returned
    prompt,         \* main's local: what build_review_prompt returned
    modelCalls,     \* number of requests.post calls made
    backend,        \* None, or Some(how the backend answered the request)
    response,       \* main's local: what call_ollama returned
    stdout,         \* the JSON values printed between the START/END markers
    exit_code,      \* None, or Some(code main returned)
    uncaught,       \* None, or Some(name of the exception that left main)
    rulesExist,     \* "unread", or whether a rules document was on disk when read
    unit            \* the last direct call of a function (SpecPrompt, SpecParse)

vars == <<pc, STRICT_MODE, ai_checks_doc, product_spec, gitLog, diff, prompt,
          modelCalls, backend, response, stdout, exit_code, uncaught, rulesExist, unit>>

None == <<>>
Some(x) == <<x>>

-----------------------------------------------------------------------------
(* Python's str operations, on text as a sequence of characters.           *)

\* str.strip() and str.isspace(): the whitespace characters
IsSpace(c) == c \in {" ", "\n"}

RECURSIVE LStrip(_)
LStrip(t) == IF t # <<>> /\ IsSpace(Head(t)) THEN LStrip(Tail(t)) ELSE t

RECURSIVE RStrip(_)
RStrip(t) ==
    IF t # <<>> /\ IsSpace(t[Len(t)]) THEN RStrip(SubSeq(t, 1, Len(t) - 1)) ELSE t

\* str.strip()
Strip(t) == RStrip(LStrip(t))

\* str.find(c) and str.rfind(c), 1-based; 0 when c does not occur
Find(t, c) ==
    IF \E i \in 1..Len(t) : t[i] = c
    THEN CHOOSE i \in 1..Len(t) : t[i] = c /\ \A j \in 1..(i - 1) : t[j] # c
    ELSE 0

RFind(t, c) ==
    IF \E i \in 1..Len(t) : t[i] = c
    THEN CHOOSE i \in 1..Len(t) : t[i] = c /\ \A j \in (i + 1)..Len(t) : t[j] # c
    ELSE 0

\* str.split(sep) for a one-element separator: the pieces between its occurrences
RECURSIVE Split(_, _)
Split(t, sep) ==
    IF Find(t, sep) = 0 THEN <<t>>
    ELSE <<SubSeq(t, 1, Find(t, sep) - 1)>>
            \o Split(SubSeq(t, Find(t, sep) + 1, Len(t)), sep)

\* sep.join(pieces)
RECURSIVE Join(_, _)
Join(pieces, sep) ==
    IF pieces = <<>> THEN <<>>
    ELSE IF Len(pieces) = 1 THEN pieces[1]
    ELSE pieces[1] \o <<sep>> \o Join(Tail(pieces), sep)

\* the number of leading blanks of a line
RECURSIVE Indent(_)
Indent(line) ==
    IF line # <<>> /\ Head(line) = " " THEN 1 + Indent(Tail(line)) ELSE 0

MinOf(S) == CHOOSE m \in S : \A n \in S : m <= n

\* textwrap.dedent: lines made only of blanks become empty, then the common
\* leading whitespace of the remaining non-empty lines is removed from each
Dedent(t) ==
    LET lines == Split(t, "\n")
        norm == [i \in 1..Len(lines) |->
                    IF Indent(lines[i]) = Len(lines[i]) THEN <<>> ELSE lines[i]]
        full == {i \in 1..Len(norm) : norm[i] # <<>>}
        margin == IF full = {} THEN 0 ELSE MinOf({Indent(norm[i]) : i \in full})
        cut == [i \in 1..Len(norm) |->
                    IF norm[i] = <<>> THEN <<>>
                    ELSE SubSeq(norm[i], margin + 1, Len(norm[i]))]
    IN  Join(cut, "\n")

-----------------------------------------------------------------------------
(* get_git_diff (lines 66-103)                                             *)

\* what a git command can answer: run_cmd returns (returncode, stdout, stderr)
GitRc == {0, 1}
GitOut == {<<>>, <<" ", "\n">>, <<"d">>}
GitStatusOut == {<<>>, <<"b">>}
GitErr(tag) == {<<>>, <<tag>>}

run_cmd(cmd, rc, out, err) == [cmd |-> cmd, rc |-> rc, out |-> out, err |-> err]

\* line 54: subprocess.run starts the command, or raises OSError when it
\* cannot (no git executable on the PATH)
RunCmdStarts == BOOLEAN
OS_ERROR == [type |-> "OSError", message |-> "No such file or directory: 'git'"]

\* line 85
FALLBACK_HEADER == <<"# Fallback diff (no se pudo usar HEAD~1)", "\n">>

\* the f-string of lines 93-101, before dedent and strip
DiagnosticTemplate(err, status_err, status_out) ==
    LET ind == <<" ", " ", " ", " ", " ", " ", " ", " ">>
    IN  <<"\n">>
        \o ind \o <<"No se pudo obtener un diff util para revisar.", "\n">>
        \o <<"\n">>
        \o ind \o <<"Ultimo error de git:", "\n">>
        \o ind \o (IF err # <<>> THEN err ELSE status_err) \o <<"\n">>
        \o <<"\n">>
        \o ind \o <<"Salida de 'git status --short --branch':", "\n">>
        \o ind \o status_out \o <<"\n">>
        \o ind

\* lines 92-102
DiagnosticMessage(err, status_err, status_out) ==
    Strip(Dedent(DiagnosticTemplate(err, status_err, status_out)))

-----------------------------------------------------------------------------
(* JSON values and json.loads, over the elements that stand for JSON text. *)
(* An object is "{", its members, "}".  A member is one element that stands*)
(* for a key with its value, or "k:" followed by any value.  A string is   *)
(* what stands between two quotes.                                         *)

JNull == [kind |-> "null"]
JNumber == [kind |-> "number"]
JString(chars) == [kind |-> "string", chars |-> chars]
JArray == [kind |-> "array"]
JObject(os, checks, notes, k) ==
    [kind |-> "object", overall_status |-> os, checks |-> checks,
     notes |-> notes, k |-> k]
EmptyObject == JObject(None, None, None, None)

\* the check of the spec's example, {"name":"t","status":"pass","details":"ok"}
CheckT == [name |-> "t", status |-> "pass", details |-> "ok"]

\* the double quote that opens and closes a JSON string
QUOTE == "\""

StatusMembers == {"os:pass", "os:fail", "os:unknown", "os:warn"}
MemberAtoms == StatusMembers \cup {"checks:[]", "checks:[c]", "notes:[]", "notes:[x]"}

\* a later member with the same key replaces the earlier one, as in a dict
ApplyMember(obj, m) ==
    CASE m = "os:pass" -> [obj EXCEPT !.overall_status = Some("pass")]
      [] m = "os:fail" -> [obj EXCEPT !.overall_status = Some("fail")]
      [] m = "os:unknown" -> [obj EXCEPT !.overall_status = Some("unknown")]
      [] m = "os:warn" -> [obj EXCEPT !.overall_status = Some("warn")]
      [] m = "checks:[]" -> [obj EXCEPT !.checks = Some(<<>>)]
      [] m = "checks:[c]" -> [obj EXCEPT !.checks = Some(<<CheckT>>)]
      [] m = "notes:[]" -> [obj EXCEPT !.notes = Some(<<>>)]
      [] m = "notes:[x]" -> [obj EXCEPT !.notes = Some(<<"x">>)]

ParseFail == [ok |-> FALSE, val |-> JNull, next |-> 0]
ParseOk(v, n) == [ok |-> TRUE, val |-> v, next |-> n]

\* the first position from i on that holds no whitespace
RECURSIVE SkipSpace(_, _)
SkipSpace(ts, i) == IF i <= Len(ts) /\ IsSpace(ts[i]) THEN SkipSpace(ts, i + 1) ELSE i

\* the position of the first quote from i on; 0 when there is none
NextQuote(ts, i) ==
    IF \E j \in i..Len(ts) : ts[j] = QUOTE
    THEN CHOOSE j \in i..Len(ts) : ts[j] = QUOTE /\ \A h \in i..(j - 1) : ts[h] # QUOTE
    ELSE 0

RECURSIVE ParseValueAt(_, _), ParseMembersAt(_, _, _)
ParseValueAt(ts, from) ==
    LET i == SkipSpace(ts, from)
    IN  IF i > Len(ts) THEN ParseFail
        ELSE CASE ts[i] = "null" -> ParseOk(JNull, i + 1)
               [] ts[i] = "0" -> ParseOk(JNumber, i + 1)
               [] ts[i] = "[]" -> ParseOk(JArray, i + 1)
               [] ts[i] = QUOTE ->
                    LET j == NextQuote(ts, i + 1)
                    IN  IF j = 0 \/ \E h \in (i + 1)..(j - 1) : ts[h] = "\n"
                        THEN ParseFail
                        ELSE ParseOk(JString(SubSeq(ts, i + 1, j - 1)), j + 1)
               [] ts[i] = "{" -> ParseMembersAt(ts, i + 1, EmptyObject)
               [] OTHER -> ParseFail

ParseMembersAt(ts, from, obj) ==
    LET i == SkipSpace(ts, from)
    IN  IF i > Len(ts) THEN ParseFail
        ELSE CASE ts[i] = "}" -> ParseOk(obj, i + 1)
               [] ts[i] \in MemberAtoms ->
                    ParseMembersAt(ts, i + 1, ApplyMember(obj, ts[i]))
               [] ts[i] = "k:" ->
                    LET r == ParseValueAt(ts, i + 1)
                    IN  IF r.ok
                        THEN ParseMembersAt(ts, r.next, [obj EXCEPT !.k = Some(r.val)])
                        ELSE ParseFail
               [] OTHER -> ParseFail

\* json.loads: one value, whitespace allowed around it and between its
\* elements; ok = FALSE stands for json.JSONDecodeError
json_loads(raw) ==
    LET r == ParseValueAt(raw, 1)
    IN  IF r.ok /\ SkipSpace(raw, r.next) = Len(raw) + 1
        THEN [ok |-> TRUE, val |-> r.val]
        ELSE [ok |-> FALSE, val |-> JNull]

-----------------------------------------------------------------------------
(* clean_and_parse_json (lines 250-271)                                    *)

\* the three backquotes that open and close a fenced block
FENCE == "FENCE"

\* lines 258-263
StripFence(raw) ==
    IF raw # <<>> /\ Head(raw) = FENCE
    THEN LET parts == Split(raw, FENCE)
         IN  IF Len(parts) >= 2 THEN Strip(parts[2])
             ELSE Strip(SelectSeq(raw, LAMBDA c : c # FENCE))
    ELSE raw

\* the cut ends at the first closing brace instead of the last
BetweenBraces_ToFirstClose(raw) ==
    IF Find(raw, "{") # 0 /\ Find(raw, "}") # 0
    THEN SubSeq(raw, Find(raw, "{"), Find(raw, "}"))
    ELSE raw

\* lines 266-267
BetweenBraces(raw) ==
    IF Find(raw, "{") # 0 /\ Find(raw, "}") # 0
    THEN SubSeq(raw, Find(raw, "{"), RFind(raw, "}"))
    ELSE raw

clean_and_parse_json(resp) == json_loads(BetweenBraces(StripFence(Strip(resp))))

-----------------------------------------------------------------------------
(* build_review_prompt (lines 197-243)                                     *)

MAX_DIFF_CHARS == 3

\* lines 204-206
TruncationNotice ==
    <<"\n", "\n",
      "[Diff truncado a " \o ToString(MAX_DIFF_CHARS)
          \o " caracteres para ajustarse al contexto.]">>

\* lines 201-206
TrimDiff(d) ==
    IF Len(d) > MAX_DIFF_CHARS
    THEN SubSeq(d, 1, MAX_DIFF_CHARS) \o TruncationNotice
    ELSE d

\* the f-string of lines 208-241; "SYSTEM" stands for lines 209-212 and
\* "INSTRUCTIONS" for lines 226-240
PromptTemplate(rules, spec, trimmed) ==
    LET ind == <<" ", " ", " ", " ">>
    IN  <<"\n">>
        \o ind \o <<"SYSTEM", "\n">>
        \o <<"\n">>
        \o ind \o <<"SPEC_BEGIN", "\n">>
        \o ind \o spec \o <<"\n">>
        \o ind \o <<"SPEC_END", "\n">>
        \o <<"\n">>
        \o ind \o <<"RULES_BEGIN", "\n">>
        \o ind \o rules \o <<"\n">>
        \o ind \o <<"RULES_END", "\n">>
        \o <<"\n">>
        \o ind \o <<"DIFF_BEGIN", "\n">>
        \o ind \o trimmed \o <<"\n">>
        \o ind \o <<"DIFF_END", "\n">>
        \o <<"\n">>
        \o ind \o <<"INSTRUCTIONS", "\n">>
        \o ind

build_review_prompt(rules, spec, d) ==
    Strip(Dedent(PromptTemplate(rules, spec, TrimDiff(d))))

-----------------------------------------------------------------------------
(* build_fallback_result (lines 278-289)                                   *)

build_fallback_result(error_message) ==
    JObject(Some("unknown"), Some(<<>>),
            Some(<<"AI reviewer no pudo ejecutarse correctamente.",
                   "Detalle tecnico: " \o error_message>>),
            None)

-----------------------------------------------------------------------------
(* load_ai_checks_document (lines 110-132), load_product_spec (135-157)    *)

RulesDocs == {<<>>, <<"r">>}
ProductSpecs == {<<>>, <<"s">>}

\* a file of the repository: None when it does not exist, else Some(content)
FileStates(contents) == {None} \cup {Some(t) : t \in contents}

\* lines 129-132
RULES_NOT_FOUND ==
    "No se encontro ci/ai_checks.md ni .github/ai-checks.md. "
        \o "Se necesita uno de estos para saber las reglas y el formato JSON."

\* the first candidate that exists wins; none: FileNotFoundError
load_ai_checks_document(ciFile, githubFile) ==
    IF ciFile # None THEN [raised |-> None, value |-> ciFile[1]]
    ELSE IF githubFile # None THEN [raised |-> None, value |-> githubFile[1]]
    ELSE [raised |-> Some([type |-> "FileNotFoundError", message |-> RULES_NOT_FOUND]),
          value |-> <<>>]

\* the first candidate that exists wins; none: the empty text
load_product_spec(rootFile, docsFile) ==
    IF rootFile # None THEN rootFile[1]
    ELSE IF docsFile # None THEN docsFile[1]
    ELSE <<>>

-----------------------------------------------------------------------------
(* call_ollama (lines 164-190)                                             *)

Obj(members) == <<"{">> \o members \o <<"}">>

\* texts the model may generate
ModelTexts ==
    { Obj(<<"os:pass", "checks:[c]", "notes:[]">>),
      Obj(<<"os:fail", "checks:[]", "notes:[x]">>),
      Obj(<<"os:unknown", "checks:[]", "notes:[]">>),
      Obj(<<"os:warn", "checks:[]", "notes:[]">>),
      Obj(<<"checks:[]", "notes:[]">>),
      Obj(<<>>),
      <<FENCE, "json", "\n">> \o Obj(<<"os:fail", "checks:[]", "notes:[x]">>)
          \o <<"\n", FENCE>>,
      <<"prose", " ">> \o Obj(<<"os:pass", "checks:[]", "notes:[]">>)
          \o <<" ", "prose">>,
      <<"prose">>,
      <<"[]">>, <<"0">>, <<QUOTE, "prose", QUOTE>>, <<"null">> }

\* how the backend can answer requests.post
BackendOutcomes ==
    { [kind |-> k, text |-> <<>>] :
        k \in {"timeout", "connection_error", "http_error", "body_not_json",
               "body_not_object", "no_response_field", "response_not_string"} }
    \cup { [kind |-> "text", text |-> t] : t \in ModelTexts }

Raise(type, message) ==
    [raised |-> Some([type |-> type, message |-> message]), value |-> <<>>]

\* lines 186-190: post (Timeout, ConnectionError), raise_for_status (HTTPError),
\* resp.json() (requests' JSONDecodeError), data.get (a body that is no object
\* has no .get), .strip() (a "response" that is no string has no .strip)
call_ollama(outcome) ==
    CASE outcome.kind = "timeout" -> Raise("Timeout", "Read timed out.")
      [] outcome.kind = "connection_error" -> Raise("ConnectionError", "Connection refused")
      [] outcome.kind = "http_error" -> Raise("HTTPError", "500 Server Error")
      [] outcome.kind = "body_not_json" -> Raise("JSONDecodeError", "Expecting value")
      [] outcome.kind = "body_not_object" ->
            Raise("AttributeError", "object has no attribute 'get'")
      [] outcome.kind = "response_not_string" ->
            Raise("AttributeError", "object has no attribute 'strip'")
      [] outcome.kind = "no_response_field" -> [raised |-> None, value |-> Strip(<<>>)]
      [] outcome.kind = "text" -> [raised |-> None, value |-> Strip(outcome.text)]

\* a handler that forgets the JSON decoding error
ExceptClause_NoDecodeError(type) == type \in {"Timeout", "ConnectionError", "HTTPError"}

\* line 340: requests.Timeout, requests.RequestException, json.JSONDecodeError
ExceptClause(type) ==
    type \in {"Timeout", "ConnectionError", "HTTPError", "JSONDecodeError"}

-----------------------------------------------------------------------------
(* main (lines 296-357)                                                    *)

\* a degraded result that never fails the run, strict mode or not
DegradedExit_Lenient(strict) == 0

\* lines 312 and 343
DegradedExit(strict) == IF strict THEN 1 ELSE 0

\* fail-closed: anything but an explicit "pass" fails the run
VerdictExit_FailClosed(parsed) == IF parsed.overall_status = Some("pass") THEN 0 ELSE 1

\* the verdict never fails the run
VerdictExit_AlwaysZero(parsed) == 0

\* lines 345-351; parsed.get exists only on an object
VerdictExit(parsed) == IF parsed.overall_status = Some("fail") THEN 1 ELSE 0

\* lines 319-323
NoChanges ==
    JObject(Some("pass"), Some(<<>>),
            Some(<<"No se encontraron cambios para revisar.">>), None)

\* the print of the JSON block and the return
Finish(value, code) ==
    /\ stdout' = Append(stdout, value)
    /\ exit_code' = Some(code)
    /\ pc' = "done"
    /\ uncaught' = uncaught

\* an exception no handler of main catches
Crash(exc) ==
    /\ uncaught' = Some(exc.type)
    /\ pc' = "crashed"
    /\ UNCHANGED <<stdout, exit_code>>

\* a handler that calls the model once more before it gives up
HandleFailure_RetryOnce(message) ==
    IF modelCalls = 0
    THEN pc' = "call_ollama" /\ UNCHANGED <<stdout, exit_code, uncaught>>
    ELSE Finish(build_fallback_result(message), DegradedExit(STRICT_MODE))

\* lines 340-343, then 353-357: the except block replaces the verdict by the
\* fallback and the run goes on to print it; the model is not called again
HandleFailure(message) ==
    Finish(build_fallback_result(message), DegradedExit(STRICT_MODE))

Init ==
    /\ pc = "start"
    /\ STRICT_MODE \in BOOLEAN
    /\ ai_checks_doc = <<>>
    /\ product_spec = <<>>
    /\ gitLog = <<>>
    /\ diff = <<>>
    /\ prompt = <<>>
    /\ modelCalls = 0
    /\ backend = None
    /\ response = <<>>
    /\ stdout = <<>>
    /\ exit_code = None
    /\ uncaught = None
    /\ rulesExist = "unread"
    /\ unit = [fn |-> "none"]

\* lines 304-312
main_load_ai_checks ==
    /\ pc = "start"
    /\ \E ciFile \in FileStates(RulesDocs), githubFile \in FileStates(RulesDocs) :
         LET r == load_ai_checks_document(ciFile, githubFile)
         IN  /\ rulesExist' = IF ciFile = None /\ githubFile = None
                                THEN "neither" ELSE "some"
             /\ IF r.raised # None
                THEN /\ Finish(build_fallback_result(r.raised[1].message),
                               DegradedExit(STRICT_MODE))
                     /\ UNCHANGED ai_checks_doc
                ELSE /\ ai_checks_doc' = r.value
                     /\ pc' = "load_product_spec"
                     /\ UNCHANGED <<stdout, exit_code, uncaught>>
    /\ UNCHANGED <<STRICT_MODE, product_spec, gitLog, diff, prompt, modelCalls,
                   backend, response, unit>>

\* line 314
main_load_product_spec ==
    /\ pc = "load_product_spec"
    /\ \E rootFile \in FileStates(ProductSpecs), docsFile \in FileStates(ProductSpecs) :
         product_spec' = load_product_spec(rootFile, docsFile)
    /\ pc' = "rev_parse"
    /\ UNCHANGED <<STRICT_MODE, ai_checks_doc, gitLog, diff, prompt, modelCalls,
                   backend, response, stdout, exit_code, uncaught, rulesExist, unit>>

\* lines 76-77: git rev-parse HEAD~1; only its return code is read
get_git_diff_rev_parse ==
    /\ pc = "rev_parse"
    /\ \E started \in RunCmdStarts, rc \in GitRc :
         IF ~started
         THEN Crash(OS_ERROR) /\ UNCHANGED gitLog
         ELSE /\ gitLog' = Append(gitLog, run_cmd("rev-parse", rc, <<>>, <<>>))
              /\ pc' = IF rc = 0 THEN "diff_head" ELSE "diff_worktree"
              /\ UNCHANGED <<stdout, exit_code, uncaught>>
    /\ UNCHANGED <<STRICT_MODE, ai_checks_doc, product_spec, diff, prompt, modelCalls,
                   backend, response, rulesExist, unit>>

\* lines 78-80: git diff --unified=0 HEAD~1
get_git_diff_head ==
    /\ pc = "diff_head"
    /\ \E started \in RunCmdStarts, rc \in GitRc, out \in GitOut, err \in GitErr("e1") :
         IF ~started
         THEN Crash(OS_ERROR) /\ UNCHANGED <<gitLog, diff>>
         ELSE /\ gitLog' = Append(gitLog, run_cmd("diff_head", rc, out, err))
              /\ IF rc = 0 /\ Strip(out) # <<>>
                 THEN diff' = out /\ pc' = "got_diff"
                 ELSE diff' = diff /\ pc' = "diff_worktree"
              /\ UNCHANGED <<stdout, exit_code, uncaught>>
    /\ UNCHANGED <<STRICT_MODE, ai_checks_doc, product_spec, prompt, modelCalls,
                   backend, response, rulesExist, unit>>

\* lines 83-86: git diff --unified=0
get_git_diff_worktree ==
    /\ pc = "diff_worktree"
    /\ \E started \in RunCmdStarts, rc \in GitRc, out \in GitOut, err \in GitErr("e2") :
         IF ~started
         THEN Crash(OS_ERROR) /\ UNCHANGED <<gitLog, diff>>
         ELSE /\ gitLog' = Append(gitLog, run_cmd("diff_worktree", rc, out, err))
              /\ IF rc = 0 /\ Strip(out) # <<>>
                 THEN diff' = FALLBACK_HEADER \o out /\ pc' = "got_diff"
                 ELSE diff' = diff /\ pc' = "status"
              /\ UNCHANGED <<stdout, exit_code, uncaught>>
    /\ UNCHANGED <<STRICT_MODE, ai_checks_doc, product_spec, prompt, modelCalls,
                   backend, response, rulesExist, unit>>

\* lines 89-103: git status --short --branch; err is still the worktree diff's
get_git_diff_status ==
    /\ pc = "status"
    /\ \E started \in RunCmdStarts, rc \in GitRc, out \in GitStatusOut,
          err \in GitErr("e3") :
         IF ~started
         THEN Crash(OS_ERROR) /\ UNCHANGED <<gitLog, diff>>
         ELSE /\ gitLog' = Append(gitLog, run_cmd("status", rc, out, err))
              /\ diff' = DiagnosticMessage(gitLog[Len(gitLog)].err, err, out)
              /\ pc' = "got_diff"
              /\ UNCHANGED <<stdout, exit_code, uncaught>>
    /\ UNCHANGED <<STRICT_MODE, ai_checks_doc, product_spec, prompt, modelCalls,
                   backend, response, rulesExist, unit>>

\* lines 317-334
main_check_diff ==
    /\ pc = "got_diff"
    /\ IF Strip(diff) = <<>>
       THEN /\ Finish(NoChanges, 0)
            /\ UNCHANGED prompt
       ELSE /\ prompt' = build_review_prompt(ai_checks_doc, product_spec, diff)
            /\ pc' = "call_ollama"
            /\ UNCHANGED <<stdout, exit_code, uncaught>>
    /\ UNCHANGED <<STRICT_MODE, ai_checks_doc, product_spec, gitLog, diff, modelCalls,
                   backend, response, rulesExist, unit>>

\* line 338, and lines 340-343 for what call_ollama raises
main_call_ollama ==
    /\ pc = "call_ollama"
    /\ modelCalls' = modelCalls + 1
    /\ \E outcome \in BackendOutcomes :
         LET r == call_ollama(outcome)
         IN  /\ backend' = Some(outcome.kind)
             /\ IF r.raised = None
                THEN /\ response' = r.value
                     /\ pc' = "parse"
                     /\ UNCHANGED <<stdout, exit_code, uncaught>>
                ELSE /\ response' = response
                     /\ IF ExceptClause(r.raised[1].type)
                        THEN HandleFailure(r.raised[1].message)
                        ELSE Crash(r.raised[1])
    /\ UNCHANGED <<STRICT_MODE, ai_checks_doc, product_spec, gitLog, diff, prompt,
                   rulesExist, unit>>

\* lines 339-357
main_parse_and_report ==
    /\ pc = "parse"
    /\ LET r == clean_and_parse_json(response)
       IN  IF ~r.ok
           THEN IF ExceptClause("JSONDecodeError")
                THEN HandleFailure("Expecting value")
                ELSE Crash([type |-> "JSONDecodeError"])
           ELSE IF r.val.kind # "object"
                THEN Crash([type |-> "AttributeError"])
                ELSE Finish(r.val, VerdictExit(r.val))
    /\ UNCHANGED <<STRICT_MODE, ai_checks_doc, product_spec, gitLog, diff, prompt,
                   modelCalls, backend, response, rulesExist, unit>>

Next ==
    \/ main_load_ai_checks
    \/ main_load_product_spec
    \/ get_git_diff_rev_parse
    \/ get_git_diff_head
    \/ get_git_diff_worktree
    \/ get_git_diff_status
    \/ main_check_diff
    \/ main_call_ollama
    \/ main_parse_and_report

Spec == Init /\ [][Next]_vars

-----------------------------------------------------------------------------
(* main() (lines 296-357) as a function of what it is given: the value of    *)
(* STRICT_MODE, whether a rules document was found, whether git could be     *)
(* started, the text get_git_diff returned and the answer of the backend.    *)
(* The result is what the run prints, returns and raises, and the number of  *)
(* calls of the model.                                                       *)

\* a main whose strict mode also rejects every parsed verdict that is not a pass
main_StrictRejectsParsed(strict, rulesFound, gitStarted, d, outcome) ==
    LET Result(out, code, exc, calls) ==
            [stdout |-> out, exit_code |-> code, uncaught |-> exc, modelCalls |-> calls]
        Degraded(message, calls) ==
            Result(<<build_fallback_result(message)>>, Some(DegradedExit(strict)),
                   None, calls)
        Raised(type, calls) == Result(<<>>, None, Some(type), calls)
    IN  IF ~rulesFound THEN Degraded(RULES_NOT_FOUND, 0)
        ELSE IF ~gitStarted THEN Raised(OS_ERROR.type, 0)
        ELSE IF Strip(d) = <<>> THEN Result(<<NoChanges>>, Some(0), None, 0)
        ELSE LET r == call_ollama(outcome)
             IN  IF r.raised # None
                 THEN IF ExceptClause(r.raised[1].type)
                      THEN Degraded(r.raised[1].message, 1)
                      ELSE Raised(r.raised[1].type, 1)
                 ELSE LET parsed == clean_and_parse_json(r.value)
                      IN  IF ~parsed.ok
                          THEN IF ExceptClause("JSONDecodeError")
                               THEN Degraded("Expecting value", 1)
                               ELSE Raised("JSONDecodeError", 1)
                          ELSE IF parsed.val.kind # "object"
                               THEN Raised("AttributeError", 1)
                               ELSE Result(<<parsed.val>>, Some(IF strict /\ parsed.val.overall_status # Some("pass")
                                                          THEN 1 ELSE VerdictExit(parsed.val)), None, 1)

main(strict, rulesFound, gitStarted, d, outcome) ==
    LET Result(out, code, exc, calls) ==
            [stdout |-> out, exit_code |-> code, uncaught |-> exc, modelCalls |-> calls]
        Degraded(message, calls) ==
            Result(<<build_fallback_result(message)>>, Some(DegradedExit(strict)),
                   None, calls)
        Raised(type, calls) == Result(<<>>, None, Some(type), calls)
    IN  IF ~rulesFound THEN Degraded(RULES_NOT_FOUND, 0)
        ELSE IF ~gitStarted THEN Raised(OS_ERROR.type, 0)
        ELSE IF Strip(d) = <<>> THEN Result(<<NoChanges>>, Some(0), None, 0)
        ELSE LET r == call_ollama(outcome)
             IN  IF r.raised # None
                 THEN IF ExceptClause(r.raised[1].type)
                      THEN Degraded(r.raised[1].message, 1)
                      ELSE Raised(r.raised[1].type, 1)
                 ELSE LET parsed == clean_and_parse_json(r.value)
                      IN  IF ~parsed.ok
                          THEN IF ExceptClause("JSONDecodeError")
                               THEN Degraded("Expecting value", 1)
                               ELSE Raised("JSONDecodeError", 1)
                          ELSE IF parsed.val.kind # "object"
                               THEN Raised("AttributeError", 1)
                               ELSE Result(<<parsed.val>>, Some(VerdictExit(parsed.val)), None, 1)

-----------------------------------------------------------------------------
(* What the claims speak of.                                               *)

Terminated == pc \in {"done", "crashed"}

\* the model backend answered with generated text (possibly none)
CallSucceeded == backend \in {Some("text"), Some("no_response_field")}

\* the request itself failed: timeout, connection failure, non-success status,
\* or a body that is not JSON
CallFailed ==
    backend \in {Some("timeout"), Some("connection_error"), Some("http_error"),
                 Some("body_not_json")}

ParseSucceeded == CallSucceeded /\ clean_and_parse_json(response).ok
ParseFailed == CallSucceeded /\ ~clean_and_parse_json(response).ok
ParsedObject == ParseSucceeded /\ clean_and_parse_json(response).val.kind = "object"

\* str(exc) of the failure of this run
FailureDetail ==
    CASE backend = Some("timeout") -> "Read timed out."
      [] backend = Some("connection_error") -> "Connection refused"
      [] backend = Some("http_error") -> "500 Server Error"
      [] OTHER -> "Expecting value"

\* an object with overall_status, checks and notes
WellFormedVerdict(v) ==
    /\ v.kind = "object"
    /\ v.overall_status # None
    /\ v.checks # None
    /\ v.notes # None

HasNote(v, note) == v.notes # None /\ \E i \in 1..Len(v.notes[1]) : v.notes[1][i] = note

\* HEAD~1 exists, and the diff against it and the diff of the working tree
\* both succeeded and printed nothing but whitespace
NoChangesReported ==
    /\ Len(gitLog) >= 3
    /\ gitLog[1].cmd = "rev-parse" /\ gitLog[1].rc = 0
    /\ gitLog[2].cmd = "diff_head" /\ gitLog[2].rc = 0 /\ Strip(gitLog[2].out) = <<>>
    /\ gitLog[3].cmd = "diff_worktree" /\ gitLog[3].rc = 0
    /\ Strip(gitLog[3].out) = <<>>

\* a git command that get_git_diff reads the return code of failed
RetrievalFailed ==
    \E i \in 1..Len(gitLog) : gitLog[i].cmd # "status" /\ gitLog[i].rc # 0

\* get_git_diff has returned
DiffReturned ==
    pc \notin {"start", "load_product_spec", "rev_parse", "diff_head",
                "diff_worktree", "status"}

-----------------------------------------------------------------------------
\* C1: every run of main() that ends has printed exactly one well-formed
\* verdict (an object with overall_status, checks and notes) and returned an
\* exit code; no run ends in an uncaught error.
C1_AlwaysOneVerdict ==
    Terminated =>
        /\ pc = "done"
        /\ uncaught = None
        /\ Len(stdout) = 1
        /\ WellFormedVerdict(stdout[1])
        /\ exit_code \in {Some(0), Some(1)}

C3_RulesMissing ==
    (Terminated /\ rulesExist = "neither")
    => /\ pc = "done"
       /\ Len(stdout) = 1
       /\ stdout[1].overall_status = Some("unknown")
       /\ HasNote(stdout[1], "Detalle tecnico: " \o RULES_NOT_FOUND)
       /\ exit_code = Some(IF STRICT_MODE THEN 1 ELSE 0)
       /\ gitLog = <<>>
       /\ prompt = <<>>
       /\ modelCalls = 0

C3_Witness ==
    /\ pc = "done"
    /\ rulesExist = "neither"
    /\ STRICT_MODE
    /\ exit_code = Some(1)

C5_NoChangesIsNotAFailure ==
    /\ (DiffReturned /\ NoChangesReported) => Strip(diff) = <<>>
    /\ (Terminated /\ NoChangesReported) => modelCalls = 0
    /\ (modelCalls > 0 /\ gitLog # <<>> /\ gitLog[Len(gitLog)].cmd = "status")
        => RetrievalFailed

\* C6: a failed model call or an unparseable response gives the fallback
\* verdict: overall_status "unknown", no checks, the error detail in the
\* notes, and exit code 1 exactly in strict mode.
C6_FailureGivesFallback ==
    (Terminated /\ (CallFailed \/ ParseFailed))
    => /\ pc = "done"
       /\ Len(stdout) = 1
       /\ stdout[1].overall_status = Some("unknown")
       /\ stdout[1].checks = Some(<<>>)
       /\ HasNote(stdout[1], "Detalle tecnico: " \o FailureDetail)
       /\ exit_code = Some(IF STRICT_MODE THEN 1 ELSE 0)

C6_Witness ==
    /\ pc = "done"
    /\ backend = Some("text")
    /\ response = <<"prose">>
    /\ STRICT_MODE
    /\ exit_code = Some(1)

\* C7: a parsed object is printed unchanged, and main() returns 1 when its
\* overall_status is "fail" and 0 when it is "pass", strict mode or not.
C7_ParsedVerdictAsIs ==
    (Terminated /\ ParsedObject)
    => /\ pc = "done"
       /\ stdout = <<clean_and_parse_json(response).val>>
       /\ (stdout[1].overall_status = Some("fail") => exit_code = Some(1))
       /\ (stdout[1].overall_status = Some("pass") => exit_code = Some(0))
       /\ (response = Obj(<<"os:pass", "checks:[c]", "notes:[]">>)
            => stdout[1] = JObject(Some("pass"), Some(<<CheckT>>), Some(<<>>), None))
       /\ (response = Obj(<<"os:fail", "checks:[]", "notes:[x]">>)
            => stdout[1] = JObject(Some("fail"), Some(<<>>), Some(<<"x">>), None))

C7_Witness ==
    /\ pc = "done"
    /\ STRICT_MODE
    /\ response = Obj(<<"os:fail", "checks:[]", "notes:[x]">>)
    /\ stdout[1].overall_status = Some("fail")
    /\ exit_code = Some(1)

\* C8: a printed verdict with overall_status "unknown" is always the local
\* fallback: the rules document was missing, the model call failed or the
\* response did not parse.
C8_UnknownOnlyFromFallback ==
    (pc = "done" /\ stdout[1].overall_status = Some("unknown"))
    => (rulesExist = "neither" \/ CallFailed \/ ParseFailed)

-----------------------------------------------------------------------------
(* build_review_prompt and clean_and_parse_json called on their own, on     *)
(* every input up to a bound.                                               *)

MaxDiffLen == 4
MaxDocLen == 2
MaxCommentLen == 1
MaxJsonDepth == 1

\* every text of at most n characters over an alphabet
Texts(alphabet, n) == UNION {[1..k -> alphabet] : k \in 0..n}

DocAlphabet == {" ", "\n", "d"}

InitUnit ==
    /\ pc = "unit"
    /\ STRICT_MODE = FALSE
    /\ ai_checks_doc = <<>>
    /\ product_spec = <<>>
    /\ gitLog = <<>>
    /\ diff = <<>>
    /\ prompt = <<>>
    /\ modelCalls = 0
    /\ backend = None
    /\ response = <<>>
    /\ stdout = <<>>
    /\ exit_code = None
    /\ uncaught = None
    /\ rulesExist = "unread"
    /\ unit = [fn |-> "none"]

call_build_review_prompt ==
    /\ pc = "unit"
    /\ \E rules \in Texts(DocAlphabet, MaxDocLen), spec \in {<<>>, <<"s">>},
          d \in Texts(DocAlphabet, MaxDiffLen) :
         unit' = [fn |-> "build_review_prompt", rules |-> rules, spec |-> spec,
                  diff |-> d, result |-> build_review_prompt(rules, spec, d)]
    /\ pc' = "unit_done"
    /\ UNCHANGED <<STRICT_MODE, ai_checks_doc, product_spec, gitLog, diff, prompt,
                   modelCalls, backend, response, stdout, exit_code, uncaught,
                   rulesExist>>

SpecPrompt == InitUnit /\ [][call_build_review_prompt]_vars

\* JSON strings, and JSON object texts nested to a depth
StringTexts ==
    { <<QUOTE>> \o c \o <<QUOTE>> :
        c \in {<<>>, <<"prose">>, <<"{">>, <<"}">>, <<FENCE>>} }

RECURSIVE ObjectTexts(_)
ObjectTexts(depth) ==
    IF depth = 0 THEN {Obj(<<>>), Obj(<<"os:pass">>)}
    ELSE ObjectTexts(depth - 1)
         \cup { Obj(<<"k:">> \o v) :
                  v \in ObjectTexts(depth - 1) \cup StringTexts \cup {<<"null">>} }

\* what a model writes around its JSON
Commentary == Texts({"prose", "{", "}", FENCE}, MaxCommentLen)

\* the object in a fenced block, with or without the language tag, between
\* a leading and a trailing commentary
Fenced(json, lead, tag, trail) ==
    lead \o <<"\n", FENCE>> \o tag \o <<"\n">> \o json \o <<"\n", FENCE, "\n">> \o trail

call_clean_and_parse_json ==
    /\ pc = "unit"
    /\ \E json \in ObjectTexts(MaxJsonDepth), lead \in Commentary, trail \in Commentary,
          tag \in {<<>>, <<"json">>} :
         unit' = [fn |-> "clean_and_parse_json", json |-> json, lead |-> lead,
                  trail |-> trail, tag |-> tag,
                  plain |-> clean_and_parse_json(json),
                  wrapped |-> clean_and_parse_json(Fenced(json, lead, tag, trail)),
                  direct |-> json_loads(json)]
    /\ pc' = "unit_done"
    /\ UNCHANGED <<STRICT_MODE, ai_checks_doc, product_spec, gitLog, diff, prompt,
                   modelCalls, backend, response, stdout, exit_code, uncaught,
                   rulesExist>>

SpecParse == InitUnit /\ [][call_clean_and_parse_json]_vars

-----------------------------------------------------------------------------
\* the text between the DIFF_BEGIN line and the DIFF_END line of a prompt,
\* without the indentation the template puts before it and before DIFF_END
DiffSection(p) ==
    LET b == Find(p, "DIFF_BEGIN")
        e == Find(p, "DIFF_END")
        body == SubSeq(p, b + 2, e - 1)
        k == Indent(SubSeq(body, RFind(body, "\n") + 1, Len(body)))
        text == SubSeq(body, 1, RFind(body, "\n") - 1)
    IN  IF Indent(text) >= k THEN SubSeq(text, k + 1, Len(text)) ELSE text

\* C9: for a diff longer than MAX_DIFF_CHARS the diff section of the prompt
\* is exactly the first MAX_DIFF_CHARS characters of the diff followed by the
\* truncation notice that states the limit.
C9_TruncatedSectionIsPrefix ==
    (unit.fn = "build_review_prompt" /\ Len(unit.diff) > MAX_DIFF_CHARS)
    => DiffSection(unit.result) = SubSeq(unit.diff, 1, MAX_DIFF_CHARS) \o TruncationNotice

HasNone(t, chars) == \A i \in 1..Len(t) : t[i] \notin chars

C11_NoPromptWithEmptyRules ==
    /\ (prompt # <<>> \/ modelCalls > 0) => ai_checks_doc # <<>>
    /\ (pc = "done" /\ ai_checks_doc = <<>>) =>
            /\ modelCalls = 0
            /\ prompt = <<>>
            /\ Len(stdout) = 1
            /\ stdout[1].overall_status = Some("unknown")

\* ---------------------------------------------------------------------------
\* get_git_diff returned its diagnostic string in place of a diff
DiffDegraded == Len(gitLog) > 0 /\ gitLog[Len(gitLog)].cmd = "status"

\* a note of the verdict that can carry the detail of the git failure: no note
\* synthesized by main does, and "x", the note the model wrote itself, is taken
\* to repeat what the prompt told it
CarriesGitDetail(v) == HasNote(v, "x")

\* C12: whenever a run degrades (rules document missing, diff retrieval
\* replaced by the diagnostic text, model call failed, response unparseable)
\* the notes of the emitted verdict contain the detail of that failure
C12_DegradationDetailInNotes ==
    (pc = "done") =>
        /\ Len(stdout) = 1
        /\ rulesExist = "neither" => HasNote(stdout[1], "Detalle tecnico: " \o RULES_NOT_FOUND)
        /\ (CallFailed \/ ParseFailed) =>
                HasNote(stdout[1], "Detalle tecnico: " \o FailureDetail)
        /\ DiffDegraded => CarriesGitDetail(stdout[1])

\* ---------------------------------------------------------------------------
\* C13: in a run the model backend is invoked at most once; after a timeout, a
\* connection failure, a non-success status or a parse failure the call is
\* not repeated and the run goes straight to emitting the degraded verdict
C13_SingleAttempt ==
    /\ modelCalls <= 1
    /\ CallFailed =>
            /\ pc = "done"
            /\ modelCalls = 1
            /\ stdout = <<build_fallback_result(FailureDetail)>>
    /\ ParseFailed =>
            /\ pc \in {"parse", "done"}
            /\ modelCalls = 1
            /\ pc = "done" => stdout = <<build_fallback_result(FailureDetail)>>

\* a run whose only model call failed and which has emitted the fallback
C13_Witness ==
    /\ pc = "done"
    /\ modelCalls = 1
    /\ backend = Some("connection_error")
    /\ stdout = <<build_fallback_result("Connection refused")>>

\* ---------------------------------------------------------------------------
\* the call of git diff with the given name, if it was made and returned
CallsOf(cmd) == {i \in 1..Len(gitLog) : gitLog[i].cmd = cmd}

\* the command succeeded with non-empty output
Available(cmd) ==
    \E i \in CallsOf(cmd) : gitLog[i].rc = 0 /\ gitLog[i].out # <<>>

OutputOf(cmd) == gitLog[CHOOSE i \in CallsOf(cmd) : TRUE].out

\* C14: get_git_diff never raises and returns its best source: the output of
\* the diff against HEAD~1, unprefixed, if HEAD~1 exists and that diff
\* succeeded with non-empty output; otherwise the output of the working-tree
\* diff behind the fallback note, if that diff succeeded with non-empty
\* output; otherwise the diagnostic string
C14_BestSourceNeverRaises ==
    /\ uncaught # Some("OSError")
    /\ (DiffReturned /\ gitLog # <<>> /\ uncaught # Some("OSError")) =>
         IF Available("diff_head")
         THEN diff = OutputOf("diff_head")
         ELSE IF Available("diff_worktree")
              THEN diff = FALLBACK_HEADER \o OutputOf("diff_worktree")
              ELSE /\ DiffDegraded
                   /\ diff[1] = "No se pudo obtener un diff util para revisar."

\* ---------------------------------------------------------------------------
\* the text between the RULES_BEGIN line and the RULES_END line of a prompt,
\* without the indentation the template puts before it and before RULES_END
RulesSection(p) ==
    LET b == Find(p, "RULES_BEGIN")
        e == Find(p, "RULES_END")
        body == SubSeq(p, b + 2, e - 1)
        k == Indent(SubSeq(body, RFind(body, "\n") + 1, Len(body)))
        text == SubSeq(body, 1, RFind(body, "\n") - 1)
    IN  IF Indent(text) >= k THEN SubSeq(text, k + 1, Len(text)) ELSE text

\* the markers of the prompt, in the order of the template
SectionOrder ==
    <<"SYSTEM", "SPEC_BEGIN", "SPEC_END", "RULES_BEGIN", "RULES_END",
      "DIFF_BEGIN", "DIFF_END">>

\* C15: the prompt holds the system framing, the project-context section, the
\* rules section and the diff section in this order, and the rules section is
\* the rules document verbatim, leading whitespace and whitespace-only lines
\* included
C15_RulesVerbatimInOrder ==
    (unit.fn = "build_review_prompt") =>
        /\ Find(unit.result, SectionOrder[1]) > 0
        /\ \A i \in 1..(Len(SectionOrder) - 1) :
              Find(unit.result, SectionOrder[i]) < Find(unit.result, SectionOrder[i + 1])
        /\ RulesSection(unit.result) = unit.rules

\* ---------------------------------------------------------------------------
\* sub occurs in t
Contains(t, sub) ==
    \E i \in 0..(Len(t) - Len(sub)) : SubSeq(t, i + 1, i + Len(sub)) = sub

\* the git diff commands of this run that failed and wrote to stderr
FailedDiffs ==
    {i \in CallsOf("diff_head") \cup CallsOf("diff_worktree") :
        gitLog[i].rc # 0 /\ gitLog[i].err # <<>>}

LastOf(S) == CHOOSE i \in S : \A j \in S : j <= i

\* C16: the diagnostic string of get_git_diff contains the last git error of
\* the run: if a git diff command (against HEAD~1 or of the working tree)
\* failed with error output, the most recent such error output is in the
\* diagnostic, together with the output of git status
C16_DiagnosticHasLastError ==
    DiffDegraded =>
        /\ FailedDiffs # {} => Contains(diff, gitLog[LastOf(FailedDiffs)].err)
        /\ Contains(diff, gitLog[Len(gitLog)].out)

\* ---------------------------------------------------------------------------
\* what this run was given, read from its final state
RulesFound == rulesExist = "some"
GitStarted == uncaught # Some(OS_ERROR.type)
BackendOutcome ==
    IF backend = None THEN [kind |-> "none"] ELSE [kind |-> backend[1], text |-> response]

\* the same run with STRICT_MODE set as given
RunWith(strict) == main(strict, RulesFound, GitStarted, diff, BackendOutcome)

\* what this run printed, returned and raised
Outcome ==
    [stdout |-> stdout, exit_code |-> exit_code, uncaught |-> uncaught,
     modelCalls |-> modelCalls]

\* the verdict of this run was synthesized by main after a failure
LocallyDegraded == ~RulesFound \/ CallFailed \/ ParseFailed

\* C17: strict mode affects only the exit code. For the documents, git
\* results and backend answer of any finished run, the run with strict mode
\* on and the run with strict mode off print the same verdict and call the
\* model the same number of times, and their exit codes differ only when the
\* verdict is one main synthesized itself
C17_StrictModeOnlyExitCode ==
    Terminated =>
        /\ Outcome = RunWith(STRICT_MODE)
        /\ RunWith(TRUE).stdout = RunWith(FALSE).stdout
        /\ RunWith(TRUE).modelCalls = RunWith(FALSE).modelCalls
        /\ RunWith(TRUE).uncaught = RunWith(FALSE).uncaught
        /\ RunWith(TRUE).exit_code # RunWith(FALSE).exit_code => LocallyDegraded

\* a strict run that ended with the fallback and exit code 1, where the same
\* run without strict mode prints the same verdict and returns 0
C17_Witness ==
    /\ pc = "done"
    /\ STRICT_MODE
    /\ backend = Some("timeout")
    /\ exit_code = Some(1)
    /\ RunWith(FALSE).exit_code = Some(0)
    /\ RunWith(FALSE).stdout = stdout
    /\ RunWith(FALSE).modelCalls = 1

\* ---------------------------------------------------------------------------
\* the prompt carries the truncation notice
HasNotice(p) == Find(p, TruncationNotice[Len(TruncationNotice)]) > 0

\* C18: a diff of at most MAX_DIFF_CHARS characters (exactly MAX_DIFF_CHARS
\* included) is embedded in full and without truncation notice; the notice is
\* in the prompt if and only if the diff is longer than MAX_DIFF_CHARS
C18_NoticeIffLonger ==
    (unit.fn = "build_review_prompt") =>
        /\ Len(unit.diff) <= MAX_DIFF_CHARS => DiffSection(unit.result) = unit.diff
        /\ HasNotice(unit.result) <=> Len(unit.diff) > MAX_DIFF_CHARS

============================================================================
